---- MODULE Spec2Model ----
(***************************************************************************)
(* Model of the address-space interval tracker of src/address_space.rs:   *)
(* the ordered set of MapEntry records, the free-region view, the two      *)
(* placement checks (is_space_at, find_space_for) and the four public      *)
(* operations.  usize arithmetic is modelled at a reduced word width; an   *)
(* overflowing +, - panics when the build has overflow checks and wraps    *)
(* otherwise.  debug_assert!(..) evaluates its argument only when the      *)
(* build has debug assertions.                                             *)
(***************************************************************************)
EXTENDS Integers, Sequences, FiniteSets, TLC

VARIABLES N_PAGES, PAGE_SIZE, MIN_GAP_SIZE,   \* const generics of AddressSpace
          debug_assertions, overflow_checks,  \* build configuration
          mappings,                           \* SgSet<MapEntry, N_PAGES>
          last,                               \* the last call and how it ended
          builder,                            \* a FlagBuilder value
          flags                               \* the Flags value obtained last, if any

vars == <<N_PAGES, PAGE_SIZE, MIN_GAP_SIZE, debug_assertions, overflow_checks, mappings, last,
          builder, flags>>

\* ---------------------------------------------------------------- bounds
WordBits == 5          \* width of usize in the model
MaxPages == 4          \* largest N_PAGES instantiated
MaxLen == 2            \* small lengths requested: 0..MaxLen

RECURSIVE Pow2(_)
Pow2(n) == IF n = 0 THEN 1 ELSE 2 * Pow2(n - 1)

WordSize == Pow2(WordBits)
WordMax == WordSize - 1

\* The instantiations AddressSpace::<N_PAGES, PAGE_SIZE, MIN_GAP_SIZE>:
\* the default gap (MIN_GAP_SIZE = PAGE_SIZE), a gap smaller than a page,
\* a gap larger than the whole space, and no gap.
Configs == { <<MaxPages, 2, 2>>,
             <<MaxPages \div 2, 4, 2>>,
             <<1, 2, 4>>,
             <<2, 2, 0>> }

Sources == {"d1", "d2"}

\* Lengths a caller passes: small ones, and one whose sums overflow.
Lengths == (0..MaxLen) \cup {WordMax}

\* ---------------------------------------------------------------- usize
\* a + b and a - b on usize: the wrapped value, and whether it overflowed.
WrapAdd(a, b) == (a + b) % WordSize
AddOverflows(a, b) == a + b > WordMax
WrapSub(a, b) == (a - b + WordSize) % WordSize
SubOverflows(a, b) == a < b

\* usize::next_multiple_of
next_multiple_of(x, rhs) == IF x % rhs = 0 THEN x ELSE WrapAdd(x, rhs - (x % rhs))
NextMultipleOverflows(x, rhs) == x % rhs # 0 /\ AddOverflows(x, rhs - (x % rhs))

\* ---------------------------------------------------------------- MapEntry
MapEntry(addr, length, source) == [addr |-> addr, length |-> length, source |-> source]

end(m) == WrapAdd(m.addr, m.length)
EndOverflows(m) == AddOverflows(m.addr, m.length)

\* SgSet iterates in the order of Ord for MapEntry, which compares addr only.
RECURSIVE Iter(_)
Iter(S) == IF S = {} THEN <<>>
           ELSE LET m == CHOOSE x \in S : \A y \in S : x.addr <= y.addr
                IN <<m>> \o Iter(S \ {m})

total_capacity == N_PAGES * PAGE_SIZE

\* The zipped (start, end) pairs of free regions, in address order; ovf
\* records that computing the start (a MapEntry::end) overflowed.
free_regions(S) ==
    LET it == Iter(S)
        n == Len(it)
    IN [i \in 1..(n + 1) |->
          [s |-> IF i = 1 THEN 0 ELSE end(it[i - 1]),
           e |-> IF i = n + 1 THEN total_capacity ELSE it[i].addr,
           ovf |-> IF i = 1 THEN FALSE ELSE EndOverflows(it[i - 1])]]

Some(v) == [tag |-> "Some", val |-> v]
None == [tag |-> "None", val |-> 0]
Panic == [tag |-> "Panic", val |-> 0]

\* is_space_at: the first region ending after addr decides.
RECURSIVE IsSpaceAtFrom(_, _, _, _)
IsSpaceAtFrom(fr, i, addr, length) ==
    IF i > Len(fr) THEN Some(FALSE)
    ELSE IF fr[i].ovf /\ overflow_checks THEN Panic
    ELSE IF ~(fr[i].e > addr) THEN IsSpaceAtFrom(fr, i + 1, addr, length)
    ELSE LET s == fr[i].s
             e == fr[i].e
         IN IF AddOverflows(s, MIN_GAP_SIZE) /\ overflow_checks THEN Panic
            ELSE IF ~(WrapAdd(s, MIN_GAP_SIZE) <= addr) THEN Some(FALSE)
            ELSE IF overflow_checks
                    /\ (AddOverflows(addr, length)
                        \/ AddOverflows(addr + length, MIN_GAP_SIZE)) THEN Panic
            ELSE Some(WrapAdd(WrapAdd(addr, length), MIN_GAP_SIZE) < e)

is_space_at(S, addr, length) == IsSpaceAtFrom(free_regions(S), 1, addr, length)

\* find_space_for: the first region with room, at its smallest aligned start.
RECURSIVE FindSpaceFrom(_, _, _)
FindSpaceFrom(fr, i, length) ==
    IF i > Len(fr) THEN None
    ELSE IF fr[i].ovf /\ overflow_checks THEN Panic
    ELSE LET s == fr[i].s
             e == fr[i].e
             sg == WrapAdd(s, MIN_GAP_SIZE)
             start == next_multiple_of(sg, PAGE_SIZE)
             end_ == WrapSub(e, MIN_GAP_SIZE)
         IN IF overflow_checks
               /\ (AddOverflows(s, MIN_GAP_SIZE)
                   \/ NextMultipleOverflows(sg, PAGE_SIZE)
                   \/ SubOverflows(e, MIN_GAP_SIZE)) THEN Panic
            ELSE IF start > end_ \/ end_ - start < length
                 THEN FindSpaceFrom(fr, i + 1, length)
                 ELSE Some(start)

find_space_for(S, length) == FindSpaceFrom(free_regions(S), 1, length)

\* ---------------------------------------------------------------- calls
\* What a call does to a mapping set S: how it ends ("Ok", "Err" or
\* "Panic"), what it returns, and the set it leaves.
Outcome(result, ret, next) == [result |-> result, ret |-> ret, next |-> next]

\* SgSet::insert: panics on a full set; returns false, changing nothing,
\* when an entry with an equal addr is present.
InsertPanics(S, entry) == Cardinality(S) >= N_PAGES /\ ~(\E m \in S : m.addr = entry.addr)
InsertReturns(S, entry) == ~(\E m \in S : m.addr = entry.addr)

\* debug_assert!(self.mappings.insert(entry)); Ok(ret): the argument is
\* evaluated only in a build with debug assertions.
debug_assert_insert(S, entry, ret) ==
    IF ~debug_assertions THEN Outcome("Ok", ret, S)
    ELSE IF InsertPanics(S, entry) \/ ~InsertReturns(S, entry) THEN Outcome("Panic", None, S)
    ELSE Outcome("Ok", ret, S \cup {entry})

add_mapping_outcome(S, source, length) ==
    LET r == find_space_for(S, length)
    IN CASE r.tag = "Panic" -> Outcome("Panic", None, S)
         [] r.tag = "None" -> Outcome("Err", None, S)
         [] r.tag = "Some" -> debug_assert_insert(S, MapEntry(r.val, length, source), r)

add_mapping_at_outcome(S, addr, source, length) ==
    LET r == is_space_at(S, addr, length)
    IN CASE r.tag = "Panic" -> Outcome("Panic", None, S)
         [] r.tag = "Some" /\ ~r.val -> Outcome("Err", None, S)
         [] r.tag = "Some" /\ r.val ->
              debug_assert_insert(S, MapEntry(addr, length, source), None)

\* remove_mapping as it would be if the probe removed every entry from start on.
remove_mapping_outcome_FromStart(S, start) ==
    IF \E m \in S : m.addr = start
    THEN Outcome("Ok", None, {m \in S : m.addr < start})
    ELSE Outcome("Err", None, S)

\* remove_mapping as it would be if the probe matched the entry whose
\* interval contains start.
remove_mapping_outcome_ByInterval(S, start) ==
    IF \E m \in S : m.addr <= start /\ start < m.addr + m.length
    THEN Outcome("Ok", None, {m \in S : ~(m.addr <= start /\ start < m.addr + m.length)})
    ELSE Outcome("Err", None, S)

\* SgSet::remove with a probe entry: equality is by addr alone.
remove_mapping_outcome(S, start) ==
    IF \E m \in S : m.addr = start
    THEN Outcome("Ok", None, {m \in S : m.addr # start})
    ELSE Outcome("Err", None, S)

\* SgSet::get with a probe entry, then the entry's source.
get_source_for_addr_outcome(S, addr) ==
    IF \E m \in S : m.addr = addr
    THEN Outcome("Ok", Some((CHOOSE m \in S : m.addr = addr).source), S)
    ELSE Outcome("Ok", None, S)

\* A panic ends the program: no call follows it.
Halted == last.result = "Panic"

Apply(op, o) ==
    /\ ~Halted
    /\ mappings' = o.next
    /\ last' = [op |-> op, result |-> o.result]
    /\ UNCHANGED <<N_PAGES, PAGE_SIZE, MIN_GAP_SIZE, debug_assertions, overflow_checks>>
    /\ UNCHANGED <<builder, flags>>

add_mapping(source, length) ==
    Apply("add_mapping", add_mapping_outcome(mappings, source, length))

add_mapping_at(addr, source, length) ==
    Apply("add_mapping_at", add_mapping_at_outcome(mappings, addr, source, length))

remove_mapping(start) ==
    Apply("remove_mapping", remove_mapping_outcome(mappings, start))

get_source_for_addr(addr) ==
    Apply("get_source_for_addr", get_source_for_addr_outcome(mappings, addr))

\* ---------------------------------------------------------------- flags
FlagNames == {"read", "write", "execute", "cow", "private", "shared"}

\* struct FlagBuilder; FlagBuilder::new() is its Default, all flags off.
FlagBuilder(read, write, execute, cow, private, shared) ==
    [read |-> read, write |-> write, execute |-> execute,
     cow |-> cow, private |-> private, shared |-> shared]

FlagBuilder_new == FlagBuilder(FALSE, FALSE, FALSE, FALSE, FALSE, FALSE)

FlagBuilders == [FlagNames -> BOOLEAN]

\* flag_toggle!: toggle_$flag and set_$flag
flag_toggle(self, flag) == [self EXCEPT ![flag] = ~self[flag]]
flag_set(self, flag, to) == [self EXCEPT ![flag] = to]

\* flag_constructor!: Flags::$flag()
flag_constructor(flag) == [FlagBuilder_new EXCEPT ![flag] = TRUE]

\* validate as it would be without its assert!.
validate_NoAssert(self) ==
    Some(FlagBuilder(self.read, self.write, self.execute, self.cow, self.private, self.shared))

\* FlagBuilder::validate: the Flags with the builder's fields, or a panic.
validate(self) ==
    IF ~(~(self.private /\ self.shared)) THEN Panic
    ELSE Some(FlagBuilder(self.read, self.write, self.execute,
                          self.cow, self.private, self.shared))

\* and as it would be if it and-ed the fields.
and_Conjunction(self, other) ==
    FlagBuilder(self.read /\ other.read, self.write /\ other.write,
                self.execute /\ other.execute, self.cow /\ other.cow,
                self.private /\ other.private, self.shared /\ other.shared)

\* FlagBuilder::and
and(self, other) ==
    LET read == self.read \/ other.read
        write == self.write \/ other.write
        execute == self.execute \/ other.execute
        cow == self.cow \/ other.cow
        private == self.private \/ other.private
        shared == self.shared \/ other.shared
    IN FlagBuilder(read, write, execute, cow, private, shared)

\* but_not as it would be if the cow line read other.execute.
but_not_WrongField(self, other) ==
    FlagBuilder(self.read /\ ~other.read, self.write /\ ~other.write,
                self.execute /\ ~other.execute, self.cow /\ ~other.execute,
                self.private /\ ~other.private, self.shared /\ ~other.shared)

\* FlagBuilder::but_not
but_not(self, other) ==
    LET read == self.read /\ ~other.read
        write == self.write /\ ~other.write
        execute == self.execute /\ ~other.execute
        cow == self.cow /\ ~other.cow
        private == self.private /\ ~other.private
        shared == self.shared /\ ~other.shared
    IN FlagBuilder(read, write, execute, cow, private, shared)

\* Flags::into_builder
into_builder(self) ==
    FlagBuilder(self.read, self.write, self.execute, self.cow, self.private, self.shared)

\* A step on the builder: the address space is not touched.
BuilderStep(op, b) ==
    /\ ~Halted
    /\ builder' = b
    /\ last' = [op |-> op, result |-> "Ok"]
    /\ UNCHANGED <<N_PAGES, PAGE_SIZE, MIN_GAP_SIZE, debug_assertions, overflow_checks,
                   mappings, flags>>

\* b.validate(): a Flags value, or a panic that leaves none.
ValidateStep(op, b) ==
    /\ ~Halted
    /\ LET v == validate(b)
       IN IF v.tag = "Some"
          THEN flags' = v /\ last' = [op |-> op, result |-> "Ok"]
          ELSE flags' = flags /\ last' = [op |-> op, result |-> "Panic"]
    /\ UNCHANGED <<N_PAGES, PAGE_SIZE, MIN_GAP_SIZE, debug_assertions, overflow_checks,
                   mappings, builder>>

Flags_build == BuilderStep("build", FlagBuilder_new)
Toggle(flag) == BuilderStep("toggle", flag_toggle(builder, flag))
Set(flag, to) == BuilderStep("set", flag_set(builder, flag, to))
Constructor(flag) == BuilderStep("constructor", flag_constructor(flag))
And(other) == BuilderStep("and", and(builder, other))
ButNot(other) == BuilderStep("but_not", but_not(builder, other))
IntoBuilder == flags.tag = "Some" /\ BuilderStep("into_builder", into_builder(flags.val))
Validate == ValidateStep("validate", builder)

\* flags![..]: a literal builder with the named flags on, validated at once.
flags_macro(names) ==
    ValidateStep("flags!", [f \in FlagNames |-> f \in names])

\* AddressSpace::new
Init ==
    /\ \E c \in Configs : N_PAGES = c[1] /\ PAGE_SIZE = c[2] /\ MIN_GAP_SIZE = c[3]
    /\ debug_assertions \in BOOLEAN
    /\ overflow_checks \in BOOLEAN
    /\ mappings = {}
    /\ last = [op |-> "new", result |-> "Ok"]
    /\ builder = FlagBuilder_new
    /\ flags = None

\* Addresses a caller passes to add_mapping_at: every address of the space
\* and its end (no region ends after a larger one).
Addrs == 0..total_capacity

\* Addresses a caller passes to remove_mapping and get_source_for_addr:
\* those of the space and every start of a mapping.
Probes == Addrs \cup {m.addr : m \in mappings}

\* Every usize.
Words == 0..WordMax

Next ==
    \/ \E src \in Sources, len \in Lengths : add_mapping(src, len)
    \/ \E a \in Addrs, src \in Sources, len \in Lengths : add_mapping_at(a, src, len)
    \/ \E a \in Probes : remove_mapping(a)
    \/ \E a \in Probes : get_source_for_addr(a)

Spec == Init /\ [][Next]_vars

\* The flags module on its own: one address space, never called.
InitFlags ==
    /\ N_PAGES = MaxPages /\ PAGE_SIZE = 2 /\ MIN_GAP_SIZE = 2
    /\ debug_assertions = TRUE
    /\ overflow_checks = TRUE
    /\ mappings = {}
    /\ last = [op |-> "new", result |-> "Ok"]
    /\ builder = FlagBuilder_new
    /\ flags = None

NextFlags ==
    \/ Flags_build
    \/ \E f \in FlagNames : Toggle(f)
    \/ \E f \in FlagNames, to \in BOOLEAN : Set(f, to)
    \/ \E f \in FlagNames : Constructor(f)
    \/ \E other \in FlagBuilders : And(other)
    \/ \E other \in FlagBuilders : ButNot(other)
    \/ IntoBuilder
    \/ Validate
    \/ \E names \in SUBSET FlagNames : flags_macro(names)

SpecFlags == InitFlags /\ [][NextFlags]_vars

TypeOK == /\ \A m \in mappings : m.addr \in 0..WordMax /\ m.length \in 0..WordMax
          /\ last.result \in {"Ok", "Err", "Panic"}

\* ---------------------------------------------------------------- properties
\* Notions the claims are stated in, in unbounded integer arithmetic.
Adjacent(m1, m2) ==
    /\ m1.addr < m2.addr
    /\ ~(\E m3 \in mappings : m1.addr < m3.addr /\ m3.addr < m2.addr)

ZeroPageFree == \A m \in mappings : m.addr >= PAGE_SIZE
GapsKept == \A m1, m2 \in mappings :
                Adjacent(m1, m2) => m1.addr + m1.length + MIN_GAP_SIZE <= m2.addr
AllAligned == \A m \in mappings : m.addr % PAGE_SIZE = 0
StateValid == ZeroPageFree /\ GapsKept /\ AllAligned

Covers(m, a) == m.addr <= a /\ a < m.addr + m.length

\* The free regions of the space: before the first mapping, between two
\* adjacent mappings, after the last one.
FreeRegionSet ==
    LET starts == {0} \cup {m.addr + m.length : m \in mappings}
        ends == {m.addr : m \in mappings} \cup {total_capacity}
        StartOf(e) == IF \E m \in mappings : m.addr < e
                      THEN LET p == CHOOSE m \in mappings :
                                      /\ m.addr < e
                                      /\ \A n \in mappings : n.addr < e => n.addr <= m.addr
                           IN p.addr + p.length
                      ELSE 0
    IN {<<StartOf(e), e>> : e \in ends}

\* a is a page-aligned start that keeps the gap on both sides of length bytes.
FitsAt(a, length) ==
    /\ a % PAGE_SIZE = 0
    /\ \E r \in FreeRegionSet : r[1] + MIN_GAP_SIZE <= a /\ a + length <= r[2] - MIN_GAP_SIZE

SomeFit(length) == \E a \in 0..total_capacity : FitsAt(a, length)

\* C1: in every reachable state, any two mappings adjacent in address order
\* are at least MIN_GAP_SIZE apart: m1.addr + m1.length + MIN_GAP_SIZE <= m2.addr.
C1_GapBetweenMappings == GapsKept

\* C2: every mapping's addr is a multiple of PAGE_SIZE, and add_mapping_at
\* with an addr that is not a multiple of PAGE_SIZE returns an error and
\* inserts nothing.
C2_Alignment ==
    /\ AllAligned
    /\ \A a \in Addrs, src \in Sources, len \in Lengths :
          a % PAGE_SIZE # 0 =>
             LET o == add_mapping_at_outcome(mappings, a, src, len)
             IN o.result = "Err" /\ o.next = mappings

\* C3: no mapping has addr < PAGE_SIZE, for every PAGE_SIZE and MIN_GAP_SIZE.
C3_ZeroPageFree == ZeroPageFree

\* C4: get_source_for_addr(a) returns the source of the mapping whose
\* interval [addr, addr + length) contains a, and nothing when none does.
C4_LookupByInterval ==
    \A a \in Words :
       LET o == get_source_for_addr_outcome(mappings, a)
       IN /\ \A m \in mappings : Covers(m, a) => o.ret = Some(m.source)
          /\ (~(\E m \in mappings : Covers(m, a)) => o.ret = None)

\* C5: when add_mapping succeeds in a state satisfying the invariants, the
\* address it returns is the lowest page-aligned, gap-respecting address
\* with room for length in some free region.
C5_FirstFit ==
    \A src \in Sources, len \in Lengths :
       LET o == add_mapping_outcome(mappings, src, len)
       IN (StateValid /\ o.result = "Ok") =>
             /\ FitsAt(o.ret.val, len)
             /\ \A b \in 0..(o.ret.val - 1) : ~FitsAt(b, len)

\* C6: a successful add_mapping or add_mapping_at leaves the previous set
\* plus exactly one new entry with the returned (or given) addr and the
\* given length, in every build configuration.
C6_AddInsertsOne ==
    /\ \A src \in Sources, len \in Lengths :
          LET o == add_mapping_outcome(mappings, src, len)
          IN o.result = "Ok" =>
                /\ o.next = mappings \cup {MapEntry(o.ret.val, len, src)}
                /\ Cardinality(o.next) = Cardinality(mappings) + 1
    /\ \A a \in Addrs, src \in Sources, len \in Lengths :
          LET o == add_mapping_at_outcome(mappings, a, src, len)
          IN o.result = "Ok" =>
                /\ o.next = mappings \cup {MapEntry(a, len, src)}
                /\ Cardinality(o.next) = Cardinality(mappings) + 1

\* [addr - MIN_GAP_SIZE, addr + length + MIN_GAP_SIZE) meets a mapping's interval.
Collides(a, length) ==
    \E m \in mappings : m.addr < a + length + MIN_GAP_SIZE /\ a - MIN_GAP_SIZE < m.addr + m.length
                        /\ m.length > 0

\* C7: add_mapping_at returns an error and leaves the set unchanged when the
\* requested interval, widened by MIN_GAP_SIZE on both sides, meets an
\* existing mapping, or when addr lies in the zero page.
C7_AddAtRejectsCollision ==
    \A a \in Addrs, src \in Sources, len \in Lengths :
       (Collides(a, len) \/ a < PAGE_SIZE) =>
          LET o == add_mapping_at_outcome(mappings, a, src, len)
          IN o.result = "Err" /\ o.next = mappings

\* C8: remove_mapping(a) on a state with a mapping starting at a succeeds,
\* removes that one entry and leaves every other entry unchanged.
C8_RemoveExactlyOne ==
    \A a \in Words :
       (\E m \in mappings : m.addr = a) =>
          LET o == remove_mapping_outcome(mappings, a)
          IN /\ o.result = "Ok"
             /\ Cardinality(o.next) = Cardinality(mappings) - 1
             /\ o.next = {m \in mappings : m.addr # a}
             /\ \A m \in mappings : m.addr # a => m \in o.next

C8_Witness ==
    /\ last.op = "remove_mapping" /\ last.result = "Ok"
    /\ Cardinality(mappings) >= 2
    /\ \E a \in Words, m \in mappings :
          /\ m.addr = a
          /\ remove_mapping_outcome(mappings, a).next = mappings \ {m}

\* C9: remove_mapping(a) returns an error and leaves the set unchanged when
\* no mapping starts exactly at a, also inside a mapping and on an empty space.
C9_RemoveMissingFails ==
    \A a \in Words :
       ~(\E m \in mappings : m.addr = a) =>
          LET o == remove_mapping_outcome(mappings, a)
          IN o.result = "Err" /\ o.next = mappings

C9_Witness ==
    /\ last.op = "remove_mapping" /\ last.result = "Err"
    /\ \E a \in Words, m \in mappings :
          /\ m.addr < a /\ Covers(m, a)
          /\ ~(\E n \in mappings : n.addr = a)
          /\ remove_mapping_outcome(mappings, a).result = "Err"

\* C10: when no free region qualifies for the length, add_mapping returns
\* the 'no space' error, does not panic, and leaves the set unchanged.
C10_NoSpaceIsAnError ==
    \A src \in Sources, len \in Lengths :
       ~SomeFit(len) =>
          LET o == add_mapping_outcome(mappings, src, len)
          IN o.result = "Err" /\ o.next = mappings

\* C11: if add_mapping(source, length) succeeds returning a, remove_mapping(a)
\* issued right after it succeeds and leaves the mapping set as it was
\* before the add.
C11_AddThenRemoveRestores ==
    \A src \in Sources, len \in Lengths :
       LET o == add_mapping_outcome(mappings, src, len)
       IN o.result = "Ok" =>
             LET r == remove_mapping_outcome(o.next, o.ret.val)
             IN r.result = "Ok" /\ r.next = mappings

\* The validity invariants of a mapping set S.
AdjacentIn(S, m1, m2) ==
    /\ m1.addr < m2.addr
    /\ ~(\E m3 \in S : m1.addr < m3.addr /\ m3.addr < m2.addr)

ValidSet(S) ==
    /\ \A m \in S : m.addr >= PAGE_SIZE
    /\ \A m1, m2 \in S :
          AdjacentIn(S, m1, m2) => m1.addr + m1.length + MIN_GAP_SIZE <= m2.addr
    /\ \A m \in S : m.addr % PAGE_SIZE = 0

\* add_mapping called with lengths len, len + 1, .. MaxLen on S, where prev is
\* the address the last successful call returned: every successful call
\* returns a non-zero address above prev and leaves a valid set.
RECURSIVE IncreasingRunOk(_, _, _)
IncreasingRunOk(S, len, prev) ==
    IF len > MaxLen THEN TRUE
    ELSE LET o == add_mapping_outcome(S, "d1", len)
         IN CASE o.result = "Panic" -> TRUE
              [] o.result = "Err" -> IncreasingRunOk(S, len + 1, prev)
              [] o.result = "Ok" ->
                   /\ o.ret.val # 0
                   /\ o.ret.val > prev
                   /\ ValidSet(o.next)
                   /\ IncreasingRunOk(o.next, len + 1, o.ret.val)

\* C12: from the empty space, add_mapping with lengths 1, 2, 3, ... returns,
\* at every call that succeeds, a non-zero address strictly greater than
\* every earlier one, and the validity invariants hold after each call.
C12_IncreasingAddresses == IncreasingRunOk({}, 1, 0)

\* C13: every stored mapping has length > 0, and a request to add a mapping
\* of length 0 never results in a stored entry.
C13_PositiveLength ==
    /\ \A m \in mappings : m.length > 0
    /\ \A src \in Sources :
          add_mapping_outcome(mappings, src, 0).next = mappings
    /\ \A a \in Addrs, src \in Sources :
          add_mapping_at_outcome(mappings, a, src, 0).next = mappings

\* C14: every Flags value has not (private and shared); validate yields a
\* Flags with exactly the builder's six fields when not (private and
\* shared), and fails, producing no Flags, when both are set.
C14_FlagsNeverPrivateAndShared ==
    /\ flags.tag = "Some" => ~(flags.val.private /\ flags.val.shared)
    /\ \A b \in FlagBuilders :
          LET v == validate(b)
          IN IF b.private /\ b.shared
             THEN v.tag = "Panic"
             ELSE v.tag = "Some" /\ \A f \in FlagNames : v.val[f] = b[f]
    /\ (last.op \in {"validate", "flags!"} /\ last.result = "Ok") => flags.tag = "Some"

C14_Witness ==
    /\ last.op = "validate" /\ last.result = "Panic"
    /\ builder.private /\ builder.shared
    /\ flags.tag = "Some"

\* C15: a.and(b) has each field equal to a.field OR b.field, so
\* a.and(b) = b.and(a); read().and(write()) has read and write set and the
\* other four clear.
C15_AndIsFieldwiseOr ==
    /\ \A b \in FlagBuilders :
          LET r == and(builder, b)
          IN /\ \A f \in FlagNames : r[f] = (builder[f] \/ b[f])
             /\ r = and(b, builder)
    /\ and(flag_constructor("read"), flag_constructor("write"))
          = FlagBuilder(TRUE, TRUE, FALSE, FALSE, FALSE, FALSE)

C15_Witness ==
    /\ last.op = "and"
    /\ builder = FlagBuilder(TRUE, TRUE, FALSE, FALSE, FALSE, FALSE)

\* C16: a.but_not(b) has each field equal to a.field AND NOT b.field, so
\* a.but_not(a) has all six fields false.
C16_ButNotIsFieldwiseDifference ==
    /\ \A b \in FlagBuilders :
          \A f \in FlagNames : but_not(builder, b)[f] = (builder[f] /\ ~b[f])
    /\ but_not(builder, builder) = FlagBuilder_new

C16_Witness ==
    /\ last.op = "but_not"
    /\ builder = FlagBuilder(TRUE, FALSE, FALSE, TRUE, FALSE, FALSE)

\* The first free region, in address order, that ends after a.
HasRegionAfter(a) == \E r \in FreeRegionSet : r[2] > a
RegionAfter(a) ==
    CHOOSE r \in FreeRegionSet :
       r[2] > a /\ \A q \in FreeRegionSet : q[2] > a => r[2] <= q[2]

\* C17: add_mapping_at(addr, source, length) succeeds if and only if the
\* first free region (s, e) with e > addr has s + MIN_GAP_SIZE <= addr and
\* addr + length + MIN_GAP_SIZE < e, and on success the mapping
\* [addr, addr + length) is stored.
C17_AddAtSucceedsIffRoom ==
    \A a \in Addrs, src \in Sources, len \in Lengths :
       LET o == add_mapping_at_outcome(mappings, a, src, len)
           room == /\ HasRegionAfter(a)
                   /\ RegionAfter(a)[1] + MIN_GAP_SIZE <= a
                   /\ a + len + MIN_GAP_SIZE < RegionAfter(a)[2]
       IN /\ (o.result = "Ok") <=> room
          /\ o.result = "Ok" => MapEntry(a, len, src) \in o.next

\* C18: the set never holds more than N_PAGES entries, and no insertion is
\* attempted on a full set: with N_PAGES entries stored, add_mapping returns
\* the 'no space' error and add_mapping_at finds no space.
C18_NoInsertOnFullSet ==
    /\ Cardinality(mappings) <= N_PAGES
    /\ Cardinality(mappings) >= N_PAGES =>
          /\ \A src \in Sources, len \in Lengths :
                add_mapping_outcome(mappings, src, len).result = "Err"
          /\ \A a \in Addrs, len \in Lengths :
                LET r == is_space_at(mappings, a, len)
                IN ~(r.tag = "Some" /\ r.val)

\* C19: if add_mapping(source, L) would succeed returning a, then
\* add_mapping_at(a, source, L) issued in the same state succeeds too.
C19_PlacementChecksAgree ==
    \A src \in Sources, len \in Lengths :
       LET o == add_mapping_outcome(mappings, src, len)
       IN o.result = "Ok" =>
             add_mapping_at_outcome(mappings, o.ret.val, src, len).result = "Ok"

\* C20: every mapping lies inside the address space,
\* addr + length <= N_PAGES * PAGE_SIZE, whatever lengths were requested.
C20_MappingsInsideSpace ==
    \A m \in mappings : m.addr + m.length <= total_capacity

\* An entry with this addr is stored: SgSet::insert of another one returns false.
AddrTaken(S, addr) == \E m \in S : m.addr = addr

\* C21: neither add_mapping nor add_mapping_at attempts to insert an entry
\* whose addr equals the addr of a stored entry, so the asserted insert
\* never returns false; start addresses of stored mappings are pairwise
\* distinct.
C21_NoDuplicateInsert ==
    /\ \A m1, m2 \in mappings : m1.addr = m2.addr => m1 = m2
    /\ \A len \in Lengths :
          LET r == find_space_for(mappings, len)
          IN r.tag = "Some" => ~AddrTaken(mappings, r.val)
    /\ \A a \in Probes, len \in Lengths :
          LET r == is_space_at(mappings, a, len)
          IN (r.tag = "Some" /\ r.val) => ~AddrTaken(mappings, a)
    /\ \A src \in Sources, len \in Lengths :
          LET o == add_mapping_outcome(mappings, src, len)
          IN o.result = "Panic" =>
                LET r == find_space_for(mappings, len)
                IN r.tag = "Panic" \/ InsertPanics(mappings, MapEntry(r.val, len, src))

\* C22: space freed by removal is reusable: after remove_mapping(a) succeeds
\* on a mapping of length L, however it was placed, an add_mapping(source, L')
\* with 0 < L' <= L issued right after it succeeds rather than returning
\* 'no space'.
C22_FreedSpaceReusable ==
    \A m \in mappings :
       LET r == remove_mapping_outcome(mappings, m.addr)
       IN r.result = "Ok" =>
             \A src \in Sources, len \in Lengths :
                (0 < len /\ len <= m.length) =>
                   add_mapping_outcome(r.next, src, len).result = "Ok"
====
